---------------------------- MODULE Spec2Model ----------------------------
(***************************************************************************)
(* Ensemble Kalman Inversion (sample_EKI_implementation.ipynb).            *)
(*                                                                         *)
(* The state machine is compute_parameter_values: one run of the EKI loop  *)
(* from the call to the return (or to the exception that ends it).  The    *)
(* numpy arrays are sequences (vectors) and sequences of rows (matrices). *)
(* numpy's floating-point numbers are modelled by exact rationals <<n,d>>  *)
(* in lowest terms with d > 0, so that equality of two values is equality  *)
(* of the pairs; a float division x/0 yields inf or nan as numpy does.     *)
(* Random draws (np.random.uniform, np.random.normal) are choices from     *)
(* small sets of values the distribution can produce.                      *)
(***************************************************************************)
EXTENDS Integers, Sequences, FiniteSets, TLC

(***************************************************************************)
(* Bounds of the model.                                                    *)
(***************************************************************************)
MaxEnsembles == 2
MaxIterBound == 2

(***************************************************************************)
(* Exact rational arithmetic, standing for the float arithmetic of numpy.  *)
(***************************************************************************)
\* F applied to the values of its arguments, each computed once
Eval1(F(_), a) == CHOOSE r \in { F(x) : x \in {a} } : TRUE

Eval2(F(_, _), a, b) == CHOOSE r \in { F(x, y) : x \in {a}, y \in {b} } : TRUE

Abs(x) == IF x < 0 THEN -x ELSE x

RECURSIVE GCD(_, _)
GCD(a, b) == Eval2(LAMBDA x, y : IF y = 0 THEN x ELSE GCD(y, x % y), a, b)

\* the rational n/d in lowest terms
Rat(n, d) ==
    Eval2(LAMBDA x, y :
            Eval1(LAMBDA g : IF y < 0 THEN << (-x) \div g, (-y) \div g >>
                                      ELSE << x \div g, y \div g >>,
                  GCD(Abs(x), Abs(y))),
          n, d)

Zero == Rat(0, 1)
One == Rat(1, 1)

RAdd(a, b) ==
    Eval2(LAMBDA x, y :
            IF x[1] = 0 THEN y
            ELSE IF y[1] = 0 THEN x
            ELSE IF x[2] = y[2] THEN Rat(x[1] + y[1], x[2])
            ELSE Eval1(LAMBDA g : Rat(x[1] * (y[2] \div g) + y[1] * (x[2] \div g),
                                      (x[2] \div g) * y[2]),
                       GCD(x[2], y[2])),
          a, b)

RNeg(a) == Eval1(LAMBDA x : << -x[1], x[2] >>, a)

RSub(a, b) == RAdd(a, RNeg(b))

\* the factors are in lowest terms, and so is the product after the two
\* cross cancellations
RMul(a, b) ==
    Eval2(LAMBDA x, y :
            IF x[1] = 0 \/ y[1] = 0 THEN Zero
            ELSE IF x[2] = 1 /\ y[2] = 1 THEN << x[1] * y[1], 1 >>
            ELSE Eval2(LAMBDA g1, g2 : << (x[1] \div g1) * (y[1] \div g2),
                                         (x[2] \div g2) * (y[2] \div g1) >>,
                       GCD(Abs(x[1]), y[2]), GCD(Abs(y[1]), x[2])),
          a, b)

\* 1 / y for y # 0
RInv(b) == Eval1(LAMBDA y : IF y[1] > 0 THEN << y[2], y[1] >>
                                        ELSE << -y[2], -y[1] >>, b)

\* x / y for y # 0
RDiv(a, b) == RMul(a, RInv(b))

RLt(a, b) == RSub(a, b)[1] < 0

(***************************************************************************)
(* Vectors and matrices (np.add, np.matmul, np.transpose, np.mean).        *)
(***************************************************************************)
\* an array with its elements computed (TLC evaluates f \o << >> eagerly)
Array(f) == f \o << >>

Eval3(F(_, _, _), a, b, c) ==
    CHOOSE r \in { F(x, y, z) : x \in {a}, y \in {b}, z \in {c} } : TRUE

Eval4(F(_, _, _, _), a, b, c, d) ==
    CHOOSE r \in { F(x, y, z, w) : x \in {a}, y \in {b}, z \in {c}, w \in {d} } :
        TRUE

RECURSIVE VSumTo(_, _)
VSumTo(v, n) ==
    Eval2(LAMBDA x, m : IF m = 0 THEN Zero ELSE RAdd(VSumTo(x, m - 1), x[m]),
          v, n)

\* the sum of the components of a vector
VSum(v) == Eval1(LAMBDA x : VSumTo(x, Len(x)), v)

VAdd(u, v) ==
    Eval2(LAMBDA x, y : Array([k \in 1..Len(x) |-> RAdd(x[k], y[k])]), u, v)

VSub(u, v) ==
    Eval2(LAMBDA x, y : Array([k \in 1..Len(x) |-> RSub(x[k], y[k])]), u, v)

Dot(u, v) ==
    Eval2(LAMBDA x, y : VSum(Array([k \in 1..Len(x) |-> RMul(x[k], y[k])])), u, v)

\* matrix times vector
MatVec(M, v) ==
    Eval2(LAMBDA A, x : Array([a \in 1..Len(A) |-> Dot(A[a], x)]), M, v)

\* np.zeros((rows, cols))
Zeros(rows, cols) == Array([i \in 1..rows |-> Array([k \in 1..cols |-> Zero])])

\* np.mean(rows, axis = 0) of a matrix with nCols columns and at least one row
Mean(M, nCols) ==
    Eval2(LAMBDA A, n :
            Array([k \in 1..n |->
                RDiv(VSum(Array([i \in 1..Len(A) |-> A[i][k]])), Rat(Len(A), 1))]),
          M, nCols)

\* np.linalg.norm(v) squared
Norm2(v) == Eval1(LAMBDA x : Dot(x, x), v)

\* M without row 1 and column c
Minor(M, c) ==
    Eval2(LAMBDA A, j :
            Array([i \in 1..(Len(A) - 1) |->
                Array([k \in 1..(Len(A) - 1) |->
                    A[i + 1][IF k < j THEN k ELSE k + 1]])]),
          M, c)

RECURSIVE Det(_)
Det(M) ==
    Eval1(LAMBDA A :
            IF Len(A) = 1 THEN A[1][1]
            ELSE VSum(Array([c \in 1..Len(A) |->
                         IF A[1][c] = Zero THEN Zero
                         ELSE RMul(IF c % 2 = 1 THEN A[1][c] ELSE RNeg(A[1][c]),
                                   Det(Minor(A, c)))])),
          M)

\* np.linalg.solve raises LinAlgError("Singular matrix") exactly in this case
Singular(M) == Det(M) = Zero

\* np.linalg.solve(M, b) for a non-singular M (Cramer's rule)
Solve(M, b) ==
    Eval3(LAMBDA A, y, d :
            Array([c \in 1..Len(A) |->
                RDiv(Det(Array([i \in 1..Len(A) |->
                        Array([k \in 1..Len(A) |->
                            IF k = c THEN y[i] ELSE A[i][k]])])),
                     d)]),
          M, b, Det(M))

(***************************************************************************)
(* The problem instance: the notebook's globals testNum, Nx, xL, xR (and   *)
(* x_points, A_fd, which are computed from them) and the arguments of      *)
(* compute_parameter_values.                                               *)
(***************************************************************************)
VARIABLES testNum, Nx, xR,
          nEnsembles, maxIter, p_noisy, noise_lvl

(***************************************************************************)
(* The locals of compute_parameter_values and of the update_ensemble call  *)
(* in progress, the output printed so far, and the outcome of the call.    *)
(***************************************************************************)
VARIABLES pc, Gamma, ini_ens, ens_mean, ens_evals, ens_eval_mean, CGG, CpG,
          current_ensemble, numIter, err_now,
          new_ensemble, Kalman_lhs, ensNum,
          stdout, outcome

(***************************************************************************)
(* History: how the while loop was left, the number of times line 297      *)
(* replaced current_ensemble, and the residuals computed at line 290.      *)
(***************************************************************************)
VARIABLES exit, nUpdates, errs

vars == << testNum, Nx, xR, nEnsembles, maxIter, p_noisy, noise_lvl,
           pc, Gamma, ini_ens, ens_mean, ens_evals, ens_eval_mean, CGG, CpG,
           current_ensemble, numIter, err_now,
           new_ensemble, Kalman_lhs, ensNum, stdout, outcome,
           exit, nUpdates, errs >>

xL == 0

(***************************************************************************)
(* Forward maps.                                                           *)
(***************************************************************************)
\* np.linspace(xL, xR, Nx) as called by generate_data for test case 1
x_points(n) ==
    Eval1(LAMBDA m :
            Array([k \in 1..m |->
                IF m = 1 THEN Rat(xL, 1)
                ELSE RAdd(Rat(xL, 1), RMul(Rat(k - 1, m - 1), Rat(1 - xL, 1)))]),
          n)

\* np.exp, at the arguments whose exponential is rational
Exp(x) == CASE x = Zero -> One

\* the mesh size dx = (xR - xL)/(Nx + 1) of generate_matrix and process_rhs
Dx(xr, n) == Rat(xr - xL, n + 1)

\* A_fd: the (Nx+2) x (Nx+2) finite volume matrix of -p'' + p
generate_matrix(xr, n) ==
    Eval2(LAMBDA dx, m :
            Array([i \in 1..(m + 2) |-> Array([k \in 1..(m + 2) |->
                IF i = 1 \/ i = m + 2 THEN (IF k = i THEN One ELSE Zero)
                ELSE IF k = i THEN RAdd(RDiv(Rat(2, 1), dx), dx)
                ELSE IF k = i - 1 \/ k = i + 1 THEN RNeg(RDiv(One, dx))
                ELSE Zero])]),
          Dx(xr, n), n)

\* the right-hand side of the finite volume scheme, boundary values 0
process_rhs(rhs_vals, xr, n) ==
    Eval3(LAMBDA vals, dx, m :
            Array([i \in 1..(m + 2) |->
                IF i = 1 \/ i = m + 2 THEN Zero ELSE RMul(vals[i - 1], dx)]),
          rhs_vals, Dx(xr, n), n)

evaluate_forward_map(curr_ens_mem, testCase, xr, n) ==
    Eval4(LAMBDA mem, case, r, m :
            IF case = 1
            THEN Eval1(LAMBDA x :
                         Array([k \in 1..m |->
                             RMul(mem[1], Exp(RMul(mem[2], x[k])))]),
                       x_points(m))
            ELSE Eval1(LAMBDA curr_sol : Array([k \in 1..m |-> curr_sol[k + 1]]),
                       Solve(generate_matrix(r, m), process_rhs(mem, r, m))),
          curr_ens_mem, testCase, xr, n)

\* compute_ens_forward: << curr_ens_evals, curr_ens_eval_mean >>
compute_ens_forward(curr_ens, testCase, xr, n) ==
    Eval2(LAMBDA curr_ens_evals, m : << curr_ens_evals, Mean(curr_ens_evals, m) >>,
          Eval4(LAMBDA ens, case, r, m :
                  Array([i \in 1..Len(ens) |->
                      evaluate_forward_map(ens[i], case, r, m)]),
                curr_ens, testCase, xr, n),
          n)

(***************************************************************************)
(* Covariances and the data covariance Gamma.                              *)
(***************************************************************************)
\* the sum over the ensemble of the outer products (u_i - uMean)(v_i - vMean)^T
OuterSum(U, uMean, V, vMean) ==
    Eval4(LAMBDA X, xm, Y, ym :
            Array([a \in 1..Len(xm) |-> Array([b \in 1..Len(ym) |->
                VSum(Array([i \in 1..Len(X) |->
                    RMul(RSub(X[i][a], xm[a]), RSub(Y[i][b], ym[b]))]))])]),
          U, uMean, V, vMean)

MScale(c, M) ==
    Eval2(LAMBDA x, A :
            Array([a \in 1..Len(A) |->
                Array([b \in 1..Len(A[a]) |-> RMul(x, A[a][b])])]),
          c, M)

\* 1/(nEnsembles-1) is a division of Python ints: ZeroDivisionError at 0
compute_covariances_raises(curr_ens) == Len(curr_ens) - 1 = 0

\* compute_covariances: << CGG, CpG >>, for an ensemble it does not raise on
compute_covariances(curr_ens, curr_ens_mean, curr_ens_evals, curr_ens_eval_mean) ==
    Eval4(LAMBDA ens, ens_m, evals, evals_m :
            Eval1(LAMBDA factor :
                    << MScale(factor, OuterSum(evals, evals_m, evals, evals_m)),
                       MScale(factor, OuterSum(ens, ens_m, evals, evals_m)) >>,
                  Rat(1, Len(ens) - 1)),
          curr_ens, curr_ens_mean, curr_ens_evals, curr_ens_eval_mean)

compute_Gamma(p_data, noise_lvl_) ==
    Eval2(LAMBDA p, c :
            Array([a \in 1..Len(p) |-> Array([b \in 1..Len(p) |->
                IF a = b THEN RMul(RMul(c, p[a]), p[a]) ELSE Zero])]),
          p_data, RDiv(RMul(noise_lvl_, noise_lvl_), Rat(4, 1)))

MAdd(A, B) ==
    Eval2(LAMBDA X, Y : Array([a \in 1..Len(X) |-> VAdd(X[a], Y[a])]), A, B)

copy_matrix(my_matrix) ==
    Eval1(LAMBDA A : Array([i \in 1..Len(A) |-> A[i]]), my_matrix)

(***************************************************************************)
(* The relative residual of line 290.  err_now is a float: the quotient    *)
(* of two norms, inf when only the denominator is 0 and nan for 0/0.  A    *)
(* finite err_now is kept as its square sq.                                *)
(***************************************************************************)
Unset == [kind |-> "unset", sq |-> Zero]

relative_residual(ens_eval_mean_, p_noisy_) ==
    Eval2(LAMBDA num2, den2 :
            IF den2 # Zero THEN [kind |-> "finite", sq |-> RDiv(num2, den2)]
            ELSE IF num2 # Zero THEN [kind |-> "inf", sq |-> Zero]
            ELSE [kind |-> "nan", sq |-> Zero],
          Norm2(VSub(ens_eval_mean_, p_noisy_)), Norm2(p_noisy_))

\* err < level, as floats compare: false for nan and for inf
ErrLess(err, level) ==
    Eval2(LAMBDA e, c : /\ e.kind = "finite"
                        /\ RLt(Zero, c)
                        /\ RLt(e.sq, RMul(c, c)),
          err, level)

\* err >= level, as floats compare: false for nan
ErrAtLeast(err, level) ==
    Eval2(LAMBDA e, c : \/ e.kind = "inf"
                        \/ e.kind = "finite" /\ ~ErrLess(e, c),
          err, level)

(***************************************************************************)
(* The inputs of the model: problem instances, measurements, noise levels, *)
(* and the values the random draws are taken from.                         *)
(***************************************************************************)
\* test case 1 with one data point (x_points = [0]); test case 2 with two
\* cells of size dx = 1
Problems ==
    { [testNum |-> 1, Nx |-> 1, xR |-> 1],
      [testNum |-> 2, Nx |-> 2, xR |-> 3] }

\* measured data of length Nx: zero, positive, negative and mixed vectors
Measurements(problem) ==
    IF problem.testNum = 1
    THEN { << Rat(0, 1) >>, << Rat(2, 1) >>, << Rat(8, 1) >>, << Rat(-2, 1) >> }
    ELSE { << Rat(0, 1), Rat(0, 1) >>, << Rat(1, 4), Rat(0, 1) >>,
           << Rat(1, 4), Rat(-1, 4) >> }

NoiseLevels == { Rat(1, 2) }

\* values np.random.uniform(lb, ub) can return, in [lb, ub)
UniformValues(lb, ub) ==
    { RAdd(lb, RMul(Rat(k, 3), RSub(ub, lb))) : k \in {0, 2} }

\* values of a standard normal draw; np.random.normal(0, s) is s times one
NormalValues == { Rat(0, 1), Rat(1, 1) }

(***************************************************************************)
(* compute_parameter_values.                                               *)
(***************************************************************************)
Running == [kind |-> "running", ens |-> << >>, mean |-> << >>]

Raised(exception) == [kind |-> exception, ens |-> << >>, mean |-> << >>]

nParams == IF testNum = 1 THEN 2 ELSE Len(p_noisy)

lb == IF testNum = 1 THEN Rat(1, 1) ELSE Rat(0, 1)

ub == IF testNum = 1 THEN Rat(4, 1) ELSE Rat(1, 1)

\* initialize_uniform_ensemble: the ensembles np.random.uniform can draw
initialize_uniform_ensemble(N_ens, N_params, lb_, ub_) ==
    [1..N_ens -> [1..N_params -> UniformValues(lb_, ub_)]]

Init ==
    /\ \E problem \in Problems :
          /\ testNum = problem.testNum
          /\ Nx = problem.Nx
          /\ xR = problem.xR
          /\ p_noisy \in Measurements(problem)
    /\ nEnsembles \in 1..MaxEnsembles
    /\ maxIter \in 0..MaxIterBound
    /\ noise_lvl \in NoiseLevels
    /\ pc = "start"
    /\ Gamma = << >>
    /\ ini_ens = << >>
    /\ ens_mean = << >>
    /\ ens_evals = << >>
    /\ ens_eval_mean = << >>
    /\ CGG = << >>
    /\ CpG = << >>
    /\ current_ensemble = << >>
    /\ numIter = 0
    /\ err_now = Unset
    /\ new_ensemble = << >>
    /\ Kalman_lhs = << >>
    /\ ensNum = 0
    /\ stdout = << >>
    /\ outcome = Running
    /\ exit = "none"
    /\ nUpdates = 0
    /\ errs = << >>

config == << testNum, Nx, xR, nEnsembles, maxIter, p_noisy, noise_lvl >>

updateLocals == << new_ensemble, Kalman_lhs, ensNum >>

\* lines 268-279: Gamma and the initial ensemble
Initialize ==
    /\ pc = "start"
    /\ Gamma' = compute_Gamma(p_noisy, noise_lvl)
    /\ \E ens \in initialize_uniform_ensemble(nEnsembles, nParams, lb, ub) :
          /\ ini_ens' = ens
          /\ ens_mean' = Mean(ens, nParams)
    /\ pc' = "forward"
    /\ UNCHANGED << config, ens_evals, ens_eval_mean, CGG, CpG, current_ensemble,
                    numIter, err_now, updateLocals, stdout, outcome, exit,
                    nUpdates, errs >>

\* line 281: the forward maps of the initial ensemble
InitialForward ==
    /\ pc = "forward"
    /\ \E fwd \in { compute_ens_forward(ini_ens, testNum, xR, Nx) } :
           /\ ens_evals' = fwd[1]
           /\ ens_eval_mean' = fwd[2]
    /\ pc' = "covariances"
    /\ UNCHANGED << config, Gamma, ini_ens, ens_mean, CGG, CpG, current_ensemble,
                    numIter, err_now, updateLocals, stdout, outcome, exit,
                    nUpdates, errs >>

\* lines 283-286: the covariances of the initial ensemble, then the copy
InitialCovariances ==
    /\ pc = "covariances"
    /\ IF compute_covariances_raises(ini_ens)
       THEN /\ outcome' = Raised("ZeroDivisionError")
            /\ pc' = "raised"
            /\ UNCHANGED << CGG, CpG, current_ensemble, ens_mean, numIter >>
       ELSE /\ \E cov \in { compute_covariances(ini_ens, ens_mean, ens_evals,
                                                  ens_eval_mean) } :
                   /\ CGG' = cov[1]
                   /\ CpG' = cov[2]
            /\ current_ensemble' = copy_matrix(ini_ens)
            /\ ens_mean' = Mean(copy_matrix(ini_ens), nParams)
            /\ numIter' = 0
            /\ pc' = "while"
            /\ UNCHANGED outcome
    /\ UNCHANGED << config, Gamma, ini_ens, ens_evals, ens_eval_mean, err_now,
                    updateLocals, stdout, exit, nUpdates, errs >>

\* mutant: the first iteration always runs (a do-while loop)
LoopCondition_do_while(numIter_, maxIter_) == numIter_ < maxIter_ \/ numIter_ = 0

\* mutant: one iteration too many
LoopCondition_inclusive(numIter_, maxIter_) == numIter_ <= maxIter_

\* the loop condition of line 287
LoopCondition(numIter_, maxIter_) == numIter_ < maxIter_

\* mutant: the loop also stops at err_now = noise_lvl
stopping_rule_or_equal(err, level) ==
    ErrLess(err, level) \/ (err.kind = "finite" /\ err.sq = RMul(level, level))

\* the stopping rule of line 291
stopping_rule(err, level) == ErrLess(err, level)

\* lines 287-294: forward maps of the current ensemble and the stopping rule
EvaluateAndCheck ==
    /\ pc = "while"
    /\ LoopCondition(numIter, maxIter)
    /\ \E fwd \in { compute_ens_forward(current_ensemble, testNum, xR, Nx) } :
       \E err \in { relative_residual(fwd[2], p_noisy) } :
           /\ ens_evals' = fwd[1]
           /\ ens_eval_mean' = fwd[2]
           /\ err_now' = err
           /\ errs' = Append(errs, err)
           /\ IF stopping_rule(err, noise_lvl)
              THEN /\ pc' = "after"
                   /\ exit' = "break"
              ELSE /\ pc' = "update"
                   /\ UNCHANGED exit
    /\ UNCHANGED << config, Gamma, ini_ens, ens_mean, CGG, CpG, current_ensemble,
                    numIter, updateLocals, stdout, outcome, nUpdates >>

\* mutant: Gamma is left out of the matrix
Kalman_lhs_without_Gamma(CGG_, Gamma_) == CGG_

\* line 223: the matrix of the linear systems of one update
Kalman_lhs_of(CGG_, Gamma_) == MAdd(CGG_, Gamma_)

\* line 295 and lines 219-223 of update_ensemble
BeginUpdate ==
    /\ pc = "update"
    /\ IF compute_covariances_raises(current_ensemble)
       THEN /\ outcome' = Raised("ZeroDivisionError")
            /\ pc' = "raised"
            /\ UNCHANGED << CGG, CpG, updateLocals >>
       ELSE /\ \E cov \in { compute_covariances(current_ensemble, ens_mean,
                                                  ens_evals, ens_eval_mean) } :
                   /\ CGG' = cov[1]
                   /\ CpG' = cov[2]
                   /\ Kalman_lhs' = Kalman_lhs_of(cov[1], Gamma)
            /\ new_ensemble' = Zeros(Len(current_ensemble), nParams)
            /\ ensNum' = 0
            /\ pc' = "member"
            /\ UNCHANGED outcome
    /\ UNCHANGED << config, Gamma, ini_ens, ens_mean, ens_evals, ens_eval_mean,
                    current_ensemble, numIter, err_now, stdout, exit, nUpdates,
                    errs >>

\* np.random.normal(0, scale) raises ValueError for a negative scale
normal_raises(p_noisy_, noise_lvl_) ==
    \E k \in 1..Len(p_noisy_) : RLt(RMul(p_noisy_[k], noise_lvl_), Zero)

\* line 229: the vectors np.random.normal(0, p_noisy*noise_lvl) can return
normal(p_noisy_, noise_lvl_) ==
    { Array([k \in 1..Len(p_noisy_) |->
          RMul(xi[k], RMul(p_noisy_[k], noise_lvl_))]) :
        xi \in [1..Len(p_noisy_) -> NormalValues] }

\* mutant: a singular matrix is skipped silently, the member is kept
updated_member_skips_singular(curr_ens_member, curr_ens_eval, eta_ens, lhs, CpG_, p_noisy_) ==
    IF Singular(lhs)
    THEN [raised |-> FALSE, member |-> curr_ens_member]
    ELSE LET Kalman_rhs == VSub(VAdd(p_noisy_, eta_ens), curr_ens_eval)
             Kalman_gain == MatVec(CpG_, Solve(lhs, Kalman_rhs))
         IN  [raised |-> FALSE, member |-> VAdd(curr_ens_member, Kalman_gain)]

\* lines 230-234: the updated member for the perturbation eta_ens, unless
\* np.linalg.solve raises LinAlgError
updated_member(curr_ens_member, curr_ens_eval, eta_ens, lhs, CpG_, p_noisy_) ==
    IF Singular(lhs)
    THEN [raised |-> TRUE, member |-> << >>]
    ELSE LET Kalman_rhs == VSub(VAdd(p_noisy_, eta_ens), curr_ens_eval)
             Kalman_gain == MatVec(CpG_, Solve(lhs, Kalman_rhs))
         IN  [raised |-> FALSE, member |-> VAdd(curr_ens_member, Kalman_gain)]

\* mutant: the member is also written into the ensemble being read
store_member_in_place(new_ens, curr_ens, row, member) ==
    << [new_ens EXCEPT ![row + 1] = member],
       [curr_ens EXCEPT ![row + 1] = member] >>

\* where update_ensemble stores the updated member ensNum (0-based)
store_member(new_ens, curr_ens, row, member) ==
    << [new_ens EXCEPT ![row + 1] = member], curr_ens >>

\* lines 224-234: one pass of the loop over the ensemble members
UpdateMember ==
    /\ pc = "member"
    /\ ensNum < Len(current_ensemble)
    /\ IF normal_raises(p_noisy, noise_lvl)
       THEN /\ outcome' = Raised("ValueError")
            /\ pc' = "raised"
            /\ UNCHANGED << new_ensemble, current_ensemble, ensNum >>
       ELSE \E eta_ens \in normal(p_noisy, noise_lvl) :
              \E step \in { updated_member(current_ensemble[ensNum + 1],
                                           ens_evals[ensNum + 1], eta_ens,
                                           Kalman_lhs, CpG, p_noisy) } :
              \E stored \in { store_member(new_ensemble, current_ensemble,
                                           ensNum, step.member) } :
                  IF step.raised
                  THEN /\ outcome' = Raised("LinAlgError")
                       /\ pc' = "raised"
                       /\ UNCHANGED << new_ensemble, current_ensemble, ensNum >>
                  ELSE /\ new_ensemble' = stored[1]
                       /\ current_ensemble' = stored[2]
                       /\ ensNum' = ensNum + 1
                       /\ UNCHANGED << pc, outcome >>
    /\ UNCHANGED << config, Gamma, ini_ens, ens_mean, ens_evals, ens_eval_mean,
                    CGG, CpG, Kalman_lhs, numIter, err_now, stdout, exit,
                    nUpdates, errs >>

\* lines 301-302: what the two print calls write
diagnostic(err) ==
    << [text |-> "err_now", value |-> err],
       [text |-> "Ensemble did not converge after maximum number of iterations",
        value |-> Unset] >>

\* mutant: the mean is not recomputed after the update
mean_not_recomputed(ensemble, old_mean) == old_mean

\* line 298: the mean kept with the ensemble that line 297 installed
mean_after_update(ensemble, old_mean) == Mean(ensemble, nParams)

\* line 299
next_numIter(numIter_) == numIter_ + 1

\* mutant: the diagnostic is printed one update early
reached_maxIter_early(numIter_, maxIter_) == numIter_ + 1 = maxIter_

\* line 300, evaluated after the increment
reached_maxIter(numIter_, maxIter_) == numIter_ = maxIter_

\* mutant: the residual is computed again, on the ensemble just installed
reported_residual_of_result(err_now_, ensemble) ==
    relative_residual(compute_ens_forward(ensemble, testNum, xR, Nx)[2], p_noisy)

\* line 301: print(err_now), the value assigned at line 290 of this iteration
reported_residual(err_now_, ensemble) == err_now_

\* lines 236 and 297-302: the new ensemble replaces the current one
EndUpdate ==
    /\ pc = "member"
    /\ ensNum = Len(current_ensemble)
    /\ current_ensemble' = copy_matrix(new_ensemble)
    /\ ens_mean' = mean_after_update(copy_matrix(new_ensemble), ens_mean)
    /\ numIter' = next_numIter(numIter)
    /\ nUpdates' = nUpdates + 1
    /\ stdout' = IF reached_maxIter(next_numIter(numIter), maxIter)
                 THEN stdout \o diagnostic(reported_residual(err_now,
                                                  copy_matrix(new_ensemble)))
                 ELSE stdout
    /\ pc' = "while"
    /\ UNCHANGED << config, Gamma, ini_ens, ens_evals, ens_eval_mean, CGG, CpG,
                    err_now, updateLocals, outcome, exit, errs >>

\* what compute_parameter_values returns at line 305
returned(ensemble, mean) == [kind |-> "returned", ens |-> ensemble, mean |-> mean]

\* lines 303-305, reached by the break or when the loop condition fails
Return ==
    /\ \/ pc = "after"
       \/ pc = "while" /\ ~LoopCondition(numIter, maxIter)
    /\ \E fwd \in { compute_ens_forward(current_ensemble, testNum, xR, Nx) } :
           /\ ens_evals' = fwd[1]
           /\ ens_eval_mean' = fwd[2]
    /\ outcome' = returned(current_ensemble, ens_mean)
    /\ exit' = IF pc = "while" THEN "condition" ELSE exit
    /\ pc' = "done"
    /\ UNCHANGED << config, Gamma, ini_ens, ens_mean, CGG, CpG, current_ensemble,
                    numIter, err_now, updateLocals, stdout, nUpdates, errs >>

Next ==
    \/ Initialize
    \/ InitialForward
    \/ InitialCovariances
    \/ EvaluateAndCheck
    \/ BeginUpdate
    \/ UpdateMember
    \/ EndUpdate
    \/ Return

Spec == Init /\ [][Next]_vars

\* the call is a sequential computation: it keeps running until it ends
FairSpec == Spec /\ WF_vars(Next)

(***************************************************************************)
(* Terms of the specification, read off the state of the call.             *)
(***************************************************************************)
\* terminal state Converged: the loop was left by the break of line 294
Converged == exit = "break"

\* terminal state MaxIterReached: the diagnostic of lines 301-302 was printed
MaxIterReached == stdout # << >>

\* the relative residual of an ensemble
ResidualOf(ensemble) ==
    relative_residual(compute_ens_forward(ensemble, testNum, xR, Nx)[2], p_noisy)

AllNonzero(v) == \A k \in 1..Len(v) : v[k] # Zero

InLoop == pc \in {"while", "update", "member", "after"}

(***************************************************************************)
(* C1.  In any iteration whose residual is below the noise level the loop  *)
(* stops in Converged without an update: no update follows a residual      *)
(* below the noise level, a converged run has computed one more residual   *)
(* than it has applied updates, it returns the very ensemble whose         *)
(* residual was checked last, and a run whose first residual is below the  *)
(* noise level applies no update and returns the initial ensemble.         *)
(***************************************************************************)
C1_ConvergedSkipsUpdate ==
    /\ (errs # << >> /\ ErrLess(errs[Len(errs)], noise_lvl))
          => /\ pc \in {"after", "done"}
             /\ Converged
             /\ Len(errs) = nUpdates + 1
             /\ err_now = ResidualOf(current_ensemble)
    /\ (pc = "done" /\ Converged)
          => /\ outcome.ens = current_ensemble
             /\ ErrLess(ResidualOf(outcome.ens), noise_lvl)
             /\ err_now = ResidualOf(outcome.ens)
    /\ (errs # << >> /\ ErrLess(errs[1], noise_lvl))
          => /\ nUpdates = 0
             /\ current_ensemble = ini_ens
             /\ pc = "done" => outcome = returned(ini_ens, Mean(ini_ens, nParams))
    /\ Converged => ErrLess(err_now, noise_lvl)

\* a run that converged after one update, and returned the updated ensemble
C1_Witness ==
    /\ pc = "done"
    /\ Converged
    /\ nUpdates = 1
    /\ outcome.ens # ini_ens

C3_MaxIterReached ==
    /\ MaxIterReached <=> (nUpdates >= 1 /\ numIter = maxIter)
    /\ MaxIterReached
          => /\ stdout = diagnostic(err_now)
             /\ err_now = errs[Len(errs)]
             /\ \A i \in 1..Len(errs) : ErrAtLeast(errs[i], noise_lvl)
             /\ ~Converged
    /\ Converged => ~MaxIterReached

\* a run that returned after two updates, with the diagnostic
C3_Witness ==
    /\ pc = "done"
    /\ MaxIterReached
    /\ Len(errs) = 2
    /\ outcome.ens # ini_ens

(***************************************************************************)
(* C4 (as stated).  With N_ens < 2 the run is rejected at initialization:  *)
(* no forward map is evaluated, no covariance is computed and no ensemble  *)
(* is returned.                                                            *)
(***************************************************************************)
C4_Original ==
    nEnsembles < 2
       => /\ ens_evals = << >>
          /\ CGG = << >>
          /\ outcome.kind # "returned"

(***************************************************************************)
(* C5.  A singular CGG + Gamma aborts the run with LinAlgError at the      *)
(* first member: no member of that update is computed, the current         *)
(* ensemble is still the one the forward maps were evaluated on (with its  *)
(* mean), the counter is not advanced and nothing is returned.             *)
(***************************************************************************)
C5_SingularAborts ==
    /\ (pc = "member" /\ Singular(MAdd(CGG, Gamma)))
          => /\ ensNum = 0
             /\ new_ensemble = Zeros(nEnsembles, nParams)
    /\ outcome.kind = "LinAlgError"
          => /\ pc = "raised"
             /\ Singular(MAdd(CGG, Gamma))
             /\ outcome.ens = << >>
             /\ new_ensemble = Zeros(nEnsembles, nParams)
             /\ ens_evals = compute_ens_forward(current_ensemble, testNum, xR, Nx)[1]
             /\ ens_mean = Mean(current_ensemble, nParams)
             /\ numIter = nUpdates
             /\ ~MaxIterReached

\* the second update of a run aborted: the first one had been applied
C5_Witness ==
    /\ outcome.kind = "LinAlgError"
    /\ nUpdates = 1
    /\ current_ensemble # ini_ens

(***************************************************************************)
(* C6 (as stated).  The relative residual is never evaluated with a zero   *)
(* denominator: every residual the loop computes is a finite quotient.     *)
(***************************************************************************)
C6_Original ==
    \A i \in 1..Len(errs) : errs[i].kind = "finite"

C8_MeanNeverStale ==
    /\ pc \in {"forward", "covariances"} => ens_mean = Mean(ini_ens, nParams)
    /\ (InLoop \/ pc = "done") => ens_mean = Mean(current_ensemble, nParams)
    /\ pc = "member"
          => << CGG, CpG >> =
                compute_covariances(current_ensemble,
                                    Mean(current_ensemble, nParams),
                                    ens_evals, ens_eval_mean)
    /\ pc = "done"
          => outcome = returned(current_ensemble, Mean(current_ensemble, nParams))

\* a run that returned after two updates, with a mean that has moved
C8_Witness ==
    /\ pc = "done"
    /\ nUpdates = 2
    /\ outcome.mean # Mean(ini_ens, nParams)

(***************************************************************************)
(* C9.  Gamma, once computed, is compute_Gamma(p_noisy, noise_lvl) and     *)
(* never changes; p_noisy never changes; while update_ensemble runs, the   *)
(* ensemble it reads, the predictions, CGG, CpG and the left-hand matrix   *)
(* stay as they were, the results going into new_ensemble; the ensemble    *)
(* installed afterwards is new_ensemble.                                   *)
(***************************************************************************)
C9_FrameStep ==
    /\ p_noisy' = p_noisy
    /\ noise_lvl' = noise_lvl
    /\ Gamma # << >> => Gamma' = Gamma
    /\ (pc = "member" /\ pc' # "while")
          => UNCHANGED << current_ensemble, ens_evals, ens_eval_mean, CGG, CpG,
                          Kalman_lhs >>
    /\ (pc = "member" /\ pc' = "while")
          => /\ current_ensemble' = new_ensemble
             /\ UNCHANGED << ens_evals, new_ensemble >>

C9_InputsUnchanged ==
    /\ [](Gamma \in {<< >>, compute_Gamma(p_noisy, noise_lvl)})
    /\ [](pc = "member"
            => ens_evals = compute_ens_forward(current_ensemble, testNum, xR, Nx)[1])
    /\ [][C9_FrameStep]_vars

\* in the second update, a member has been computed and differs from its input
C9_Witness ==
    /\ pc = "member"
    /\ numIter = 1
    /\ ensNum >= 1
    /\ new_ensemble[1] # current_ensemble[1]

(***************************************************************************)
(* C10.  The call ends (it returns or raises); numIter is the number of    *)
(* updates applied and never exceeds maxIter; an update is only ever made  *)
(* with numIter < maxIter, on the forward maps of the whole current        *)
(* ensemble, after one residual per update applied plus one.               *)
(***************************************************************************)
C10_Budget ==
    /\ numIter = nUpdates
    /\ numIter <= maxIter
    /\ pc \in {"update", "member"}
          => /\ numIter < maxIter
             /\ ens_evals = compute_ens_forward(current_ensemble, testNum, xR, Nx)[1]
             /\ Len(ens_evals) = nEnsembles
             /\ Len(errs) = nUpdates + 1

C10_TerminatesWithinBudget ==
    /\ []C10_Budget
    /\ <>(pc \in {"done", "raised"})

\* a run that used its whole budget of two updates
C10_Witness ==
    /\ pc = "done"
    /\ maxIter = 2
    /\ nUpdates = maxIter


(***************************************************************************)
(* C11 (as stated).  Whatever the sign of the measurement components, the  *)
(* standard deviation measurement_k * noiseLevel handed to the normal draw *)
(* of an update is non-negative, and no update fails because of the sign   *)
(* of a measurement component.                                             *)
(***************************************************************************)
C11_Original ==
    /\ pc = "member"
          => \A k \in 1..Len(p_noisy) :
                ~RLt(RMul(p_noisy[k], noise_lvl), Zero)
    /\ outcome.kind # "ValueError"


(***************************************************************************)
(* C12.  The stopping rule is applied to the ensemble of before each       *)
(* update, never to the one returned: residual i of a run is that of the   *)
(* ensemble after i-1 updates, at most maxIter residuals are computed, and *)
(* a run that applies maxIter >= 1 updates computes exactly maxIter; the   *)
(* diagnostic reports the residual of the ensemble as it was before the    *)
(* final update, and the return computes and compares no residual.         *)
(***************************************************************************)
C12_Counts ==
    /\ Len(errs) <= maxIter
    /\ Len(errs) \in {nUpdates, nUpdates + 1}
    /\ errs # << >> => errs[1] = ResidualOf(ini_ens)
    /\ (nUpdates = maxIter /\ maxIter >= 1)
          => /\ Len(errs) = maxIter
             /\ MaxIterReached
             /\ stdout = diagnostic(errs[maxIter])

C12_Step ==
    /\ Len(errs') > Len(errs)
          => /\ Len(errs) = nUpdates
             /\ errs' = Append(errs, ResidualOf(current_ensemble))
             /\ current_ensemble' = current_ensemble
    /\ (pc = "member" /\ pc' = "while")
          => /\ err_now = ResidualOf(current_ensemble)
             /\ UNCHANGED << err_now, errs >>
             /\ stdout' # stdout
                   => /\ numIter' = maxIter
                      /\ stdout' = diagnostic(ResidualOf(current_ensemble))
    /\ pc' = "done"
          => /\ UNCHANGED << err_now, errs, stdout, current_ensemble >>
             /\ outcome'.ens = current_ensemble

C12_LastResidualIsPreUpdate ==
    /\ []C12_Counts
    /\ [][C12_Step]_vars

\* a run that used its two updates and printed the diagnostic although the
\* ensemble it returned has a residual below the noise level
C12_Witness ==
    /\ pc = "done"
    /\ maxIter = 2
    /\ nUpdates = 2
    /\ MaxIterReached
    /\ stdout[1].value # ResidualOf(outcome.ens)
    /\ ErrLess(ResidualOf(outcome.ens), noise_lvl)

=============================================================================
